---- MODULE Spec2Model ----
(***************************************************************************)
(* The doozer client (src/client.go): the multiplexed call protocol of one *)
(* connection (conn.send / call / events / cancel / readResponses /        *)
(* close), the cluster session (Client.run / connect / dial / call /       *)
(* retry) and the membership tracker (conn.monitorAddrs).                  *)
(*                                                                         *)
(* Go semantics used: channels made by make(chan T) are unbuffered, so a   *)
(* send and a receive are one joint step; a receive on a closed channel    *)
(* yields nil at once; closing a closed channel, sending on a closed       *)
(* channel, adding an entry to a nil map and dereferencing nil all panic   *)
(* and end the whole process; reading from a nil map behaves as on an empty *)
(* map; deleting from a nil map ("m[k] = v, false") is a no-op or the same *)
(* panic as an assignment, depending on the release of the Go toolchain,   *)
(* so both outcomes are possible here.  A mutex-protected section is one   *)
(* step.  The fields conn.redirectAddr and conn.redirected are written by  *)
(* the read loop and read nowhere; they are not part of the state here.    *)
(*                                                                         *)
(* Four specifications share the actions:                                  *)
(*   Spec         one connection, a unary caller, a Watch and its Cancel   *)
(*   UnarySpec    one connection, two concurrent unary callers             *)
(*   SessionSpec  the cluster session with Client.retry and Client.call    *)
(*   TrackerSpec  the membership tracker of one connection                 *)
(***************************************************************************)
EXTENDS Integers, Sequences, FiniteSets, TLC

\* ---------------------------------------------------------------- bounds
MaxEvents == 2     \* Valid frames the remote sends on one caller's stream
MaxNet == 2        \* frames buffered in one socket
MaxCancels == 2    \* Cancel invocations on one Watch
MaxPubs == 1       \* addresses the trackers publish to one session (SessionSpec)

\* ------------------------------------------------------- program constants
Valid == 1
Done == 2
MaxInt32 == 2147483647
MinInt32 == -MaxInt32 - 1

Nil == "nil"
NoResponse == [nil |-> TRUE]      \* a nil *R
NotCalled == [called |-> FALSE]
NoPanic == "none"
NilMapPanic == "assignment to entry in nil map"

\* every successful dial but the first needs an address published before it
Conns == 1 .. MaxPubs + 1
Addrs == {"addr0", "addr1"}    \* addr0 is the address given to New
Unary == {"u1", "u2"}          \* callers of conn.call / Client.call
Retriers == {"rt"}             \* callers of Client.retry
Watches == {"w1"}              \* callers of conn.events holding a Watch
\* the four streams of monitorAddrs: watchAddr, walkAddr, watch, walk
TrkStreams == {"wa", "ka", "wl", "kl"}
Streams == Watches \cup TrkStreams
CancelCall == [w1 |-> "x1"]    \* the CANCEL call conn.cancel issues for a Watch
Cancels == {CancelCall[s] : s \in Watches}
Calls == Unary \cup Retriers \cup Streams \cup Cancels

VARIABLES
  err,       \* conn.err, per connection: Nil, "werr" (write path) or "rerr" (read path)
  n,         \* conn.n, per connection: next tag
  cb,        \* conn.cb, per connection: tag -> sink (a call id) or Nil (placeholder)
  cbnil,     \* conn.cb = nil (after conn.close)
  closed,    \* conn.closed, per connection: items in the 1-buffered channel
  addr,      \* conn.addr, per connection
  torn,      \* per connection: the sinks the table held open when conn.close ran
  rl,        \* readResponses, per connection: [pc, r, ch] its position and locals
  net,       \* per connection: frames in the socket, remote -> client
  srv,       \* per connection: requests the remote has received and not finished
  pc,        \* per call: position of the calling goroutine
  cc,        \* per call: the connection it runs on
  tag,       \* per call: the tag conn.send assigned (t.Tag)
  res,       \* per call: what the call returned
  chan,      \* per call: its sink channel ch, [closed, closes]
  rcv,       \* per call: the frames received from its sink, in order
  fwd,       \* per stream: the forwarding goroutine of conn.events, [pc, ev]
  evs,       \* per stream: Watch.C, [closed, closes]
  seen,      \* per stream: the events the consumer received from Watch.C
  can,       \* per Watch: conn.cancel, [pc, res, n, acc]: position, last result,
             \* Cancel calls returned, and whether one passed the tag check
  a,         \* Client.run: the address pool
  cur,       \* Client.run: its connection c (0: none)
  run,       \* Client.run: its position
  clc,       \* Client.c is closed
  dials,     \* connections dialed so far
  up,        \* the addresses a dial reaches
  trk,       \* monitorAddrs: [pc, out, back, addrs, cal, off, hist]
  script,    \* per tracker stream: the events the remote has for it
  panic,     \* the process died of a run-time panic (its reason)
  rin,       \* the Response on which (*R).err is called
  rout       \* what (*R).err returned for it

connVars == <<err, n, cb, cbnil, closed, addr, torn>>
callVars == <<pc, cc, tag, res, chan, rcv>>
strVars == <<fwd, evs, seen>>
sessVars == <<a, cur, run, clc, dials, up>>
trkVars == <<trk, script>>
errVars == <<rin, rout>>
vars == <<connVars, rl, net, srv, callVars, strVars, can, sessVars, trkVars, panic, errVars>>

\* ---------------------------------------------------------------- helpers
HasFlag(f, b) == (f \div b) % 2 = 1

NewChan == [closed |-> FALSE, closes |-> 0]
CloseChan(ch) == [closed |-> TRUE, closes |-> ch.closes + 1]

NoFrame == [tag |-> -1, flags |-> 0, for |-> Nil, val |-> 0, ec |-> 0]

Inc32(x) == IF x = MaxInt32 THEN MinInt32 ELSE x + 1

\* the tag search that takes a reserved tag (nil placeholder) for unused
RECURSIVE UnusedTagSkipNil(_, _)
UnusedTagSkipNil(m, x) ==
  IF x \in DOMAIN m /\ m[x] # Nil THEN UnusedTagSkipNil(m, Inc32(x)) ELSE x

\* the tag search that starts at tag 0 instead of at c.n
UnusedTagFromZero(m, x) ==
  CHOOSE t \in 0 .. Cardinality(DOMAIN m) :
    t \notin DOMAIN m /\ \A u \in 0 .. t - 1 : u \in DOMAIN m

\* for _, ok := c.cb[c.n]; ok; _, ok = c.cb[c.n] { c.n++ }
RECURSIVE UnusedTag(_, _)
UnusedTag(m, x) == IF x \in DOMAIN m THEN UnusedTag(m, Inc32(x)) ELSE x

\* c.cb[t] = v
MapPut(m, t, v) == [x \in (DOMAIN m) \cup {t} |-> IF x = t THEN v ELSE m[x]]
\* c.cb[t] = nil, false
MapDel(m, t) == [x \in (DOMAIN m) \ {t} |-> m[x]]
EmptyMap == [x \in {} |-> Nil]

Verb(k) ==
  IF k \in Cancels THEN "CANCEL"
  ELSE IF k \in {"ka", "kl"} THEN "WALK"
  ELSE IF k \in Streams THEN "WATCH"
  ELSE "GET"
\* the Watch a CANCEL call belongs to
WatchOf(x) == CHOOSE s \in Watches : CancelCall[s] = x

\* where a call's goroutine goes when conn.send / conn.call returns
AfterCall(k) == IF k \in Retriers THEN "retry" ELSE "done"

\* (r *R).err()
RErr(r) == IF r = NoFrame THEN "EOF" ELSE IF r.ec # 0 THEN "remote" ELSE Nil

Live == panic = NoPanic

\* ------------------------------------------------------------------- Init
NoTracker == [pc |-> "off", out |-> "", back |-> "off", addrs |-> EmptyMap, cal |-> EmptyMap,
              off |-> {}, hist |-> <<>>]

InitConns ==
  /\ err = [c \in Conns |-> Nil]
  /\ cb = [c \in Conns |-> EmptyMap]
  /\ cbnil = [c \in Conns |-> FALSE]
  /\ closed = [c \in Conns |-> 0]
  /\ torn = [c \in Conns |-> {}]
  /\ net = [c \in Conns |-> <<>>]
  /\ srv = [c \in Conns |-> {}]
  /\ tag = [k \in Calls |-> 0]
  /\ res = [k \in Calls |-> Nil]
  /\ chan = [k \in Calls |-> NewChan]
  /\ rcv = [k \in Calls |-> <<>>]
  /\ fwd = [s \in Streams |-> [pc |-> "off", ev |-> NoFrame]]
  /\ evs = [s \in Streams |-> NewChan]
  /\ seen = [s \in Streams |-> <<>>]
  /\ can = [s \in Watches |-> [pc |-> "idle", res |-> Nil, n |-> 0, acc |-> FALSE]]
  /\ clc = FALSE
  /\ panic = NoPanic

\* no (*R).err call is looked at
NoErrCall == rin = NoResponse /\ rout = NotCalled

\* connection 1 as Client.dial leaves it, with the session serving it
Dialed ==
  /\ rl = [c \in Conns |-> [pc |-> IF c = 1 THEN "read" ELSE "off", r |-> NoFrame, ch |-> Nil]]
  /\ addr = [c \in Conns |-> IF c = 1 THEN "addr0" ELSE ""]
  /\ cc = [k \in Calls |-> 1]
  /\ a = {"addr0"} /\ cur = 1 /\ run = "select" /\ dials = 1 /\ up = {"addr0"}

\* conn.n of a connection that has allocated x tags so far (a fresh one: 0)
Allocated(x) == [c \in Conns |-> IF c = 1 THEN x ELSE 0]

\* One dialed connection whose callers are about to invoke conn.call (u1)
\* and conn.events (w1) on it; the connection is fresh or its tag counter is
\* about to wrap around.
Init ==
  /\ InitConns /\ Dialed
  /\ n \in {Allocated(0), Allocated(MaxInt32)}
  /\ pc = [k \in Calls |-> IF k \in {"u1", "w1"} THEN "send" ELSE "off"]
  /\ trk = NoTracker
  /\ script = [s \in TrkStreams |-> <<>>]
  /\ NoErrCall

\* ------------------------------------------------------------- conn.send
\* if c.err != nil { return nil, c.err };  ch := make(chan *R)
SendCheck(k) ==
  /\ Live /\ pc[k] = "send"
  /\ IF err[cc[k]] # Nil
     THEN /\ pc' = [pc EXCEPT ![k] = AfterCall(k)]
          /\ res' = [res EXCEPT ![k] = err[cc[k]]]
          /\ UNCHANGED <<chan, rcv>>
     ELSE /\ pc' = [pc EXCEPT ![k] = "lock"]
          /\ chan' = [chan EXCEPT ![k] = NewChan]
          /\ rcv' = [rcv EXCEPT ![k] = <<>>]
          /\ UNCHANGED res
  /\ UNCHANGED <<connVars, rl, net, srv, cc, tag, strVars, can, sessVars, trkVars, panic>>
  /\ UNCHANGED errVars

\* c.cblk.Lock(); find an unused tag; c.cb[tag] = ch; c.cblk.Unlock()
SendAlloc(k) ==
  /\ Live /\ pc[k] = "lock"
  /\ LET c == cc[k]
         t == UnusedTag(cb[c], n[c])
     IN /\ n' = [n EXCEPT ![c] = t]
        /\ IF cbnil[c]
           THEN /\ panic' = NilMapPanic
                /\ UNCHANGED <<cb, tag, pc>>
           ELSE /\ cb' = [cb EXCEPT ![c] = MapPut(cb[c], t, k)]
                /\ tag' = [tag EXCEPT ![k] = t]
                /\ pc' = [pc EXCEPT ![k] = "write"]
                /\ UNCHANGED panic
  /\ UNCHANGED <<err, cbnil, closed, addr, torn, rl, net, srv, cc, res, chan, rcv,
                 strVars, can, sessVars, trkVars>>
  /\ UNCHANGED errVars

\* the request as the remote receives it
Request(k) ==
  [tag |-> tag[k], for |-> k, verb |-> Verb(k), sent |-> 0,
   other |-> IF k \in Cancels THEN tag[WatchOf(k)] ELSE -1]

\* c.clk.Lock(); err := c.writeT(t); c.clk.Unlock()
\* writeT returns the sticky error, or writes the frame, or fails and sets c.err;
\* conn.events then starts its forwarding goroutine
SendWrite(k) ==
  /\ Live /\ pc[k] = "write"
  /\ LET c == cc[k] IN
     \/ /\ err[c] # Nil
        /\ res' = [res EXCEPT ![k] = err[c]]
        /\ pc' = [pc EXCEPT ![k] = "unreg"]
        /\ UNCHANGED <<err, srv, fwd>>
     \/ /\ err[c] = Nil
        /\ srv' = [srv EXCEPT ![c] = @ \cup {Request(k)}]
        /\ pc' = [pc EXCEPT ![k] = IF k \in Streams THEN "open" ELSE "recv"]
        /\ fwd' = IF k \in Streams THEN [fwd EXCEPT ![k] = [pc |-> "range", ev |-> NoFrame]] ELSE fwd
        /\ UNCHANGED <<err, res>>
     \/ /\ err[c] = Nil
        /\ err' = [err EXCEPT ![c] = "werr"]
        /\ res' = [res EXCEPT ![k] = "werr"]
        /\ pc' = [pc EXCEPT ![k] = "unreg"]
        /\ UNCHANGED <<srv, fwd>>
  /\ UNCHANGED <<n, cb, cbnil, closed, addr, torn, rl, net, cc, tag, chan, rcv, evs, seen,
                 can, sessVars, trkVars, panic>>
  /\ UNCHANGED errVars

\* if err != nil { c.cblk.Lock(); c.cb[tag] = nil, false; c.cblk.Unlock(); return nil, err }
SendUnreg(k) ==
  /\ Live /\ pc[k] = "unreg"
  /\ \/ /\ cb' = [cb EXCEPT ![cc[k]] = MapDel(@, tag[k])]
        /\ pc' = [pc EXCEPT ![k] = AfterCall(k)]
        /\ UNCHANGED panic
     \/ /\ cbnil[cc[k]]
        /\ panic' = NilMapPanic
        /\ UNCHANGED <<cb, pc>>
  /\ UNCHANGED <<err, n, cbnil, closed, addr, torn, rl, net, srv, cc, tag, res, chan, rcv,
                 strVars, can, sessVars, trkVars>>
  /\ UNCHANGED errVars

\* ------------------------------------------------------------- conn.call
\* r := <-ch on a closed sink yields nil: r.err() is os.EOF.  (The receive of a
\* delivered Response is the joint step Deliver of the read loop.)
CallRecv(k) ==
  /\ Live /\ pc[k] = "recv" /\ chan[k].closed
  /\ res' = [res EXCEPT ![k] = RErr(NoFrame)]
  /\ pc' = [pc EXCEPT ![k] = AfterCall(k)]
  /\ UNCHANGED <<connVars, rl, net, srv, cc, tag, chan, rcv, strVars, can, sessVars,
                 trkVars, panic>>
  /\ UNCHANGED errVars

\* ----------------------------------------------------- conn.readResponses
\* a read loop that leaves the tag of a Done frame in the table
ReleasedNever(m, r) == m

\* if flags&Done != 0 { c.cb[tag] = nil, false }
Released(m, r) == IF HasFlag(r.flags, Done) THEN MapDel(m, r.tag) ELSE m

\* a read loop that gives up (returns) when a frame's tag is not in the table
ReadResponseStopsOnUnknown(c) ==
  /\ Live /\ rl[c].pc = "read" /\ net[c] # <<>>
  /\ LET r == Head(net[c])
         m == cb[c]
         ok == r.tag \in DOMAIN m
         ch == IF ok THEN m[r.tag] ELSE Nil
     IN /\ net' = [net EXCEPT ![c] = Tail(@)]
        /\ IF ok /\ ch = Nil
           THEN UNCHANGED <<cb, rl>>
           ELSE /\ cb' = [cb EXCEPT ![c] = Released(m, r)]
                /\ rl' = [rl EXCEPT ![c] =
                            IF ~ok THEN [pc |-> "close", r |-> NoFrame, ch |-> Nil]
                            ELSE IF HasFlag(r.flags, Valid) THEN [pc |-> "deliver", r |-> r, ch |-> ch]
                            ELSE IF HasFlag(r.flags, Done) THEN [pc |-> "closech", r |-> NoFrame, ch |-> ch]
                            ELSE [pc |-> "read", r |-> NoFrame, ch |-> Nil]]
  /\ UNCHANGED <<err, n, cbnil, closed, addr, torn, srv, callVars, strVars, can, sessVars,
                 trkVars, panic>>
  /\ UNCHANGED errVars

\* r, err := c.readR() succeeded; look the tag up under c.cblk, drop the frame
\* of a placeholder or of an unknown tag, release the tag of a Done frame
ReadResponse(c) ==
  /\ Live /\ rl[c].pc = "read" /\ net[c] # <<>>
  /\ LET r == Head(net[c])
         m == cb[c]
         ok == r.tag \in DOMAIN m
         ch == IF ok THEN m[r.tag] ELSE Nil
     IN /\ net' = [net EXCEPT ![c] = Tail(@)]
        /\ IF ok /\ ch = Nil
           THEN UNCHANGED <<cb, rl>>
           ELSE /\ cb' = [cb EXCEPT ![c] = Released(m, r)]
                /\ rl' = [rl EXCEPT ![c] =
                            IF ~ok THEN [pc |-> "read", r |-> NoFrame, ch |-> Nil]
                            ELSE IF HasFlag(r.flags, Valid) THEN [pc |-> "deliver", r |-> r, ch |-> ch]
                            ELSE IF HasFlag(r.flags, Done) THEN [pc |-> "closech", r |-> NoFrame, ch |-> ch]
                            ELSE [pc |-> "read", r |-> NoFrame, ch |-> Nil]]
  /\ UNCHANGED <<err, n, cbnil, closed, addr, torn, srv, callVars, strVars, can, sessVars,
                 trkVars, panic>>
  /\ UNCHANGED errVars

\* the read loop's step after its "ch <- r" was received
AfterDeliver(r) == IF HasFlag(r.flags, Done) THEN "closech" ELSE "read"

\* if flags&Valid != 0 { ch <- r }: the unbuffered send completes when the
\* goroutine waiting on ch receives it, a unary call in "r := <-ch"
\* (conn.call) or a forwarding goroutine in "range cb" (conn.events)
Deliver(c) ==
  /\ Live /\ rl[c].pc = "deliver"
  /\ LET k == rl[c].ch
         r == rl[c].r
     IN IF chan[k].closed
        THEN /\ panic' = "send on closed channel"
             /\ UNCHANGED <<rl, pc, res, rcv, fwd>>
        ELSE /\ \/ /\ pc[k] = "recv"
                   /\ res' = [res EXCEPT ![k] = IF RErr(r) = Nil THEN "ok" ELSE RErr(r)]
                   /\ pc' = [pc EXCEPT ![k] = AfterCall(k)]
                   /\ UNCHANGED fwd
                \/ /\ k \in Streams /\ fwd[k].pc = "range"
                   /\ fwd' = [fwd EXCEPT ![k] = [pc |-> "send", ev |-> r]]
                   /\ UNCHANGED <<pc, res>>
             /\ rcv' = [rcv EXCEPT ![k] = Append(@, r)]
             /\ rl' = [rl EXCEPT ![c] = [pc |-> AfterDeliver(r), r |-> NoFrame, ch |-> k]]
             /\ UNCHANGED panic
  /\ UNCHANGED <<connVars, net, srv, cc, tag, chan, evs, seen, can, sessVars, trkVars>>
  /\ UNCHANGED errVars

\* if flags&Done != 0 { close(ch) }
CloseSink(c) ==
  /\ Live /\ rl[c].pc = "closech"
  /\ IF chan[rl[c].ch].closed
     THEN /\ panic' = "close of closed channel"
          /\ UNCHANGED <<chan, rl>>
     ELSE /\ chan' = [chan EXCEPT ![rl[c].ch] = CloseChan(@)]
          /\ rl' = [rl EXCEPT ![c] = [pc |-> "read", r |-> NoFrame, ch |-> Nil]]
          /\ UNCHANGED panic
  /\ UNCHANGED <<connVars, net, srv, pc, cc, tag, res, rcv, strVars, can, sessVars, trkVars>>
  /\ UNCHANGED errVars

\* c.readR() failed: c.clk.Lock(); if c.err == nil { c.err = err }; return
ReadError(c) ==
  /\ Live /\ rl[c].pc = "read"
  /\ err' = [err EXCEPT ![c] = IF @ = Nil THEN "rerr" ELSE @]
  /\ rl' = [rl EXCEPT ![c] = [pc |-> "close", r |-> NoFrame, ch |-> Nil]]
  /\ UNCHANGED <<n, cb, cbnil, closed, addr, torn, net, srv, callVars, strVars, can,
                 sessVars, trkVars, panic>>
  /\ UNCHANGED errVars

\* the entries of a table that hold a sink
TableSinks(m) == {m[t] : t \in DOMAIN m} \ {Nil}

\* conn.close that closes the unary sinks only
ClosedByCloseUnaryOnly(m) == {m[t] : t \in {u \in DOMAIN m : m[u] # Nil /\ m[u] \notin Streams}}

\* for _, ch := range c.cb { if ch != nil { close(ch) } }
ClosedByClose(m) == {m[t] : t \in {u \in DOMAIN m : m[u] # Nil}}

\* conn.close (deferred by readResponses): close the sinks, c.cb = nil,
\* c.closed <- true
ConnClose(c) ==
  /\ Live /\ rl[c].pc = "close" /\ closed[c] = 0
  /\ torn' = [torn EXCEPT ![c] = TableSinks(cb[c])]
  /\ IF \E k \in ClosedByClose(cb[c]) : chan[k].closed
     THEN /\ panic' = "close of closed channel"
          /\ UNCHANGED <<chan, cb, cbnil, closed, rl>>
     ELSE /\ chan' = [k \in Calls |-> IF k \in ClosedByClose(cb[c]) THEN CloseChan(chan[k]) ELSE chan[k]]
          /\ cb' = [cb EXCEPT ![c] = EmptyMap]
          /\ cbnil' = [cbnil EXCEPT ![c] = TRUE]
          /\ closed' = [closed EXCEPT ![c] = 1]
          /\ rl' = [rl EXCEPT ![c] = [pc |-> "exit", r |-> NoFrame, ch |-> Nil]]
          /\ UNCHANGED panic
  /\ UNCHANGED <<err, n, addr, net, srv, pc, cc, tag, res, rcv, strVars, can, sessVars, trkVars>>
  /\ UNCHANGED errVars

\* ------------------------------------------------------------ the remote
Room(c) == Len(net[c]) < MaxNet

\* the events the remote has for a stream
NumEvents(k) == IF k \in TrkStreams THEN Len(script[k]) ELSE MaxEvents

\* The remote produces the leader watch's events after the leader walk's: the
\* walk reads the store as it is, the watch reports the changes that follow.
InOrder(c, q) ==
  q.for = "wl" => pc["kl"] = "open" /\ ~\E p \in srv[c] : p.for = "kl"

\* the remote answers a unary request with one Valid|Done frame; a CANCEL it
\* accepts also ends the stream of the tag it names
SrvReply(c) ==
  /\ Live /\ Room(c)
  /\ \E q \in srv[c], ec \in {0, 1} :
       /\ q.verb \in {"GET", "CANCEL"}
       /\ net' = [net EXCEPT ![c] = Append(@, [tag |-> q.tag, flags |-> Valid + Done,
                                               for |-> q.for, val |-> 0, ec |-> ec])]
       /\ srv' = [srv EXCEPT ![c] =
                    {p \in @ \ {q} : ~(q.verb = "CANCEL" /\ ec = 0 /\ p.tag = q.other)}]
  /\ UNCHANGED <<connVars, rl, callVars, strVars, can, sessVars, trkVars, panic>>
  /\ UNCHANGED errVars

\* the remote sends the next event of a stream
SrvEvent(c) ==
  /\ Live /\ Room(c)
  /\ \E q \in srv[c] :
       /\ q.verb \in {"WATCH", "WALK"} /\ q.sent < NumEvents(q.for) /\ InOrder(c, q)
       /\ net' = [net EXCEPT ![c] = Append(@, [tag |-> q.tag, flags |-> Valid, for |-> q.for,
                                               val |-> q.sent + 1, ec |-> 0])]
       /\ srv' = [srv EXCEPT ![c] = (@ \ {q}) \cup {[q EXCEPT !.sent = @ + 1]}]
  /\ UNCHANGED <<connVars, rl, callVars, strVars, can, sessVars, trkVars, panic>>
  /\ UNCHANGED errVars

\* The remote ends a stream.  A caller's stream (watch, walk or getdir) ends
\* with a bare Done frame or with a Valid|Done frame that carries the last
\* event or an error; a walk of the tracker ends with a bare Done frame when
\* its events are sent, and a watch of the tracker does not end.
SrvEnd(c) ==
  /\ Live /\ Room(c)
  /\ \E q \in srv[c], fl \in {Done, Valid + Done}, ec \in {0, 1} :
       /\ q.verb \in {"WATCH", "WALK"}
       /\ fl = Done => ec = 0
       /\ q.for \in TrkStreams => q.verb = "WALK" /\ q.sent = NumEvents(q.for) /\ fl = Done
       /\ net' = [net EXCEPT ![c] = Append(@, [tag |-> q.tag, flags |-> fl, for |-> q.for,
                                               val |-> IF fl = Done \/ ec # 0 THEN 0 ELSE q.sent + 1,
                                               ec |-> ec])]
       /\ srv' = [srv EXCEPT ![c] = @ \ {q}]
  /\ UNCHANGED <<connVars, rl, callVars, strVars, can, sessVars, trkVars, panic>>
  /\ UNCHANGED errVars

\* ----------------------------------------------------------- conn.events
\* for r := range cb { ... } ends when the sink is closed.  (The receive of a
\* delivered Response is the joint step Deliver of the read loop.)
FwdRecv(s) ==
  /\ Live /\ fwd[s].pc = "range" /\ chan[s].closed
  /\ fwd' = [fwd EXCEPT ![s] = [pc |-> "closeevs", ev |-> NoFrame]]
  /\ UNCHANGED <<connVars, rl, net, srv, callVars, evs, seen, can, sessVars, trkVars, panic>>
  /\ UNCHANGED errVars

\* close(evs)
FwdClose(s) ==
  /\ Live /\ fwd[s].pc = "closeevs"
  /\ evs' = [evs EXCEPT ![s] = CloseChan(@)]
  /\ fwd' = [fwd EXCEPT ![s] = [pc |-> "exit", ev |-> NoFrame]]
  /\ UNCHANGED <<connVars, rl, net, srv, callVars, seen, can, sessVars, trkVars, panic>>
  /\ UNCHANGED errVars

\* a forwarding goroutine that copies only the error into the Event
EventOfErrOnly(r) == [val |-> 0, err |-> RErr(r)]

\* the Event the forwarding goroutine builds from a Response
EventOf(r) == [val |-> r.val, err |-> RErr(r)]

\* "evs <- &ev" is pending and Watch.C can be received from
Offering(s) == fwd[s].pc = "send" /\ ~evs[s].closed

\* the consumer of a Watch receives from Watch.C: the pending event of the
\* forwarding goroutine (evs <- &ev), or nothing once Watch.C is closed.  The
\* consumer runs beside the goroutine that calls Watch.Cancel.
WatchRecv(s) ==
  /\ Live /\ pc[s] = "open"
  /\ \/ /\ Offering(s)
        /\ seen' = [seen EXCEPT ![s] = Append(@, EventOf(fwd[s].ev))]
        /\ fwd' = [fwd EXCEPT ![s] = [pc |-> "range", ev |-> NoFrame]]
        /\ UNCHANGED pc
     \/ /\ evs[s].closed
        /\ pc' = [pc EXCEPT ![s] = "ended"]
        /\ UNCHANGED <<seen, fwd>>
  /\ UNCHANGED <<connVars, rl, net, srv, cc, tag, res, chan, rcv, evs, can, sessVars,
                 trkVars, panic>>
  /\ UNCHANGED errVars

\* ----------------------------------------------------------- conn.cancel
\* conn.cancel that accepts any tag present in the table
BadTagAbsentOnly(m, t, s) == t \notin DOMAIN m

\* ch, ok := c.cb[tag]; if !ok || ch != cb { return ErrBadTag }
BadTag(m, t, s) == t \notin DOMAIN m \/ m[t] # s

\* Watch.Cancel: the tag check; then c.cb[tag] = nil and the CANCEL call starts
CancelCheck(s) ==
  /\ Live /\ pc[s] \in {"open", "ended"} /\ can[s].pc = "idle" /\ can[s].n < MaxCancels
  /\ LET c == cc[s]
         x == CancelCall[s]
     IN IF BadTag(cb[c], tag[s], s)
        THEN /\ can' = [can EXCEPT ![s] = [@ EXCEPT !.res = "ErrBadTag", !.n = @ + 1]]
             /\ UNCHANGED <<cb, pc, cc, res>>
        ELSE /\ cb' = [cb EXCEPT ![c] = MapPut(cb[c], tag[s], Nil)]
             /\ can' = [can EXCEPT ![s] = [@ EXCEPT !.pc = "call", !.res = Nil, !.acc = TRUE]]
             /\ pc' = [pc EXCEPT ![x] = "send"]
             /\ cc' = [cc EXCEPT ![x] = c]
             /\ res' = [res EXCEPT ![x] = Nil]
  /\ UNCHANGED <<err, n, cbnil, closed, addr, torn, rl, net, srv, tag, chan, rcv, strVars,
                 sessVars, trkVars, panic>>
  /\ UNCHANGED errVars

\* a conn.cancel that removes its placeholder also when the CANCEL call failed
CancelReleaseAlways(s) ==
  /\ Live /\ can[s].pc = "call" /\ pc[CancelCall[s]] = "done"
  /\ cb' = [cb EXCEPT ![cc[s]] = MapDel(@, tag[s])]
  /\ pc' = [pc EXCEPT ![CancelCall[s]] = "off"]
  /\ can' = IF res[CancelCall[s]] # "ok"
            THEN [can EXCEPT ![s] = [@ EXCEPT !.pc = "idle", !.res = res[CancelCall[s]], !.n = @ + 1]]
            ELSE [can EXCEPT ![s].pc = "close"]
  /\ UNCHANGED <<err, n, cbnil, closed, addr, torn, rl, net, srv, cc, tag, res, chan, rcv,
                 strVars, sessVars, trkVars, panic>>
  /\ UNCHANGED errVars

\* _, err := c.call(CANCEL); if err != nil { return err };
\* c.cblk.Lock(); c.cb[tag] = nil, false; c.cblk.Unlock()
CancelRelease(s) ==
  /\ Live /\ can[s].pc = "call" /\ pc[CancelCall[s]] = "done"
  /\ IF res[CancelCall[s]] # "ok"
     THEN /\ can' = [can EXCEPT ![s] = [@ EXCEPT !.pc = "idle", !.res = res[CancelCall[s]], !.n = @ + 1]]
          /\ pc' = [pc EXCEPT ![CancelCall[s]] = "off"]
          /\ UNCHANGED <<cb, panic>>
     ELSE \/ /\ cb' = [cb EXCEPT ![cc[s]] = MapDel(@, tag[s])]
             /\ can' = [can EXCEPT ![s].pc = "close"]
             /\ pc' = [pc EXCEPT ![CancelCall[s]] = "off"]
             /\ UNCHANGED panic
          \/ /\ cbnil[cc[s]]
             /\ panic' = NilMapPanic
             /\ UNCHANGED <<cb, can, pc>>
  /\ UNCHANGED <<err, n, cbnil, closed, addr, torn, rl, net, srv, cc, tag, res, chan, rcv,
                 strVars, sessVars, trkVars>>
  /\ UNCHANGED errVars

\* close(ch); return nil
CancelClose(s) ==
  /\ Live /\ can[s].pc = "close"
  /\ IF chan[s].closed
     THEN /\ panic' = "close of closed channel"
          /\ UNCHANGED <<chan, can>>
     ELSE /\ chan' = [chan EXCEPT ![s] = CloseChan(@)]
          /\ can' = [can EXCEPT ![s] = [@ EXCEPT !.pc = "idle", !.res = "ok", !.n = @ + 1]]
          /\ UNCHANGED panic
  /\ UNCHANGED <<connVars, rl, net, srv, pc, cc, tag, res, rcv, strVars, sessVars, trkVars>>
  /\ UNCHANGED errVars

\* ------------------------------------------------- one connection: Spec
Next ==
  \/ \E k \in Calls : SendCheck(k) \/ SendAlloc(k) \/ SendWrite(k) \/ SendUnreg(k) \/ CallRecv(k)
  \/ \E c \in Conns : ReadResponse(c) \/ Deliver(c) \/ CloseSink(c) \/ ReadError(c) \/ ConnClose(c)
  \/ \E c \in Conns : SrvReply(c) \/ SrvEvent(c) \/ SrvEnd(c)
  \/ \E s \in Streams : FwdRecv(s) \/ FwdClose(s)
  \/ \E s \in Watches : WatchRecv(s) \/ CancelCheck(s) \/ CancelRelease(s) \/ CancelClose(s)

Spec == Init /\ [][Next]_vars

\* ------------------------- one connection and stray frames: StraySpec
\* tags the remote has no request pending for and that no call holds open:
\* tags used before, and the tag the next call will get
StrayTags(c) ==
  (({tag[k] : k \in Calls} \cup {n[c]}) \ {q.tag : q \in srv[c]})
     \ {t \in DOMAIN cb[c] : cb[c][t] # Nil}

\* the remote sends a frame the client no longer, or not yet, expects: a late
\* frame of a stream that has ended or was cancelled, or a frame with a tag
\* the remote made up
SrvStray(c) ==
  /\ Live /\ Room(c) /\ rl[c].pc # "off"
  /\ \E t \in StrayTags(c), fl \in {Valid, Done, Valid + Done} :
       net' = [net EXCEPT ![c] = Append(@, [tag |-> t, flags |-> fl, for |-> Nil,
                                            val |-> 0, ec |-> 0])]
  /\ UNCHANGED <<connVars, rl, srv, callVars, strVars, can, sessVars, trkVars, panic>>
  /\ UNCHANGED errVars

\* a dialed connection on which conn.events is about to be invoked
StrayInit ==
  /\ InitConns /\ Dialed
  /\ n = Allocated(0)
  /\ pc = [k \in Calls |-> IF k = "w1" THEN "send" ELSE "off"]
  /\ trk = NoTracker
  /\ script = [s \in TrkStreams |-> <<>>]
  /\ NoErrCall

StrayNext == Next \/ \E c \in Conns : SrvStray(c)

StraySpec == StrayInit /\ [][StrayNext]_vars

\* ------------------------------------- two concurrent unary calls: UnarySpec
UnaryInit ==
  /\ InitConns /\ Dialed
  /\ n = Allocated(0)
  /\ pc = [k \in Calls |-> IF k \in Unary THEN "send" ELSE "off"]
  /\ trk = NoTracker
  /\ script = [s \in TrkStreams |-> <<>>]
  /\ NoErrCall

UnaryNext ==
  \/ \E k \in Calls : SendCheck(k) \/ SendAlloc(k) \/ SendWrite(k) \/ SendUnreg(k) \/ CallRecv(k)
  \/ \E c \in Conns : ReadResponse(c) \/ Deliver(c) \/ CloseSink(c) \/ ReadError(c) \/ ConnClose(c)
  \/ \E c \in Conns : SrvReply(c)

UnarySpec == UnaryInit /\ [][UnaryNext]_vars

\* ------------------------------------------------ Client.connect / dial
\* Client.dial(addr) succeeded: a new conn with its table and c.closed, its
\* read loop started (its monitorAddrs is TrackerOffer below)
DialOk(c, ad) ==
  /\ addr' = [addr EXCEPT ![c] = ad]
  /\ rl' = [rl EXCEPT ![c] = [pc |-> "read", r |-> NoFrame, ch |-> Nil]]
  /\ cur' = c
  /\ dials' = c
  /\ run' = "select"

\* one round of "for len(a) > 0" in Client.connect: pick an address of the
\* pool (map order), dial it, return the conn or drop the address;
\* with the pool empty close(cl.c) and return nil, which ends Client.run
Connect ==
  /\ Live /\ run = "connect"
  /\ IF a = {}
     THEN /\ clc' = TRUE
          /\ run' = "exit"
          /\ cur' = 0
          /\ UNCHANGED <<a, addr, rl, dials>>
     ELSE \E ad \in a :
            IF ad \in up
            THEN /\ dials < MaxPubs + 1
                 /\ DialOk(dials + 1, ad)
                 /\ UNCHANGED <<a, clc>>
            ELSE /\ a' = a \ {ad}
                 /\ UNCHANGED <<addr, rl, cur, dials, run, clc>>
  /\ UNCHANGED <<err, n, cb, cbnil, closed, torn, net, srv, callVars, strVars, can, up,
                 trkVars, panic>>
  /\ UNCHANGED errVars

\* ------------------------------------------------------------ Client.run
\* a Client.run that goes on receiving from cl.a after connect has failed
RunAddAfterExit ==
  /\ Live /\ trk.pc = "add"
  /\ a' = a \cup {trk.out}
  /\ trk' = [trk EXCEPT !.pc = trk.back, !.hist = Append(@, <<"add", trk.out>>)]
  /\ UNCHANGED <<connVars, rl, net, srv, callVars, strVars, can, cur, run, clc, dials, up,
                 script, panic>>
  /\ UNCHANGED errVars

\* case add := <-cl.a: a[add] = true, received from a tracker in "cl.a <- addr"
RunAdd ==
  /\ Live /\ run = "select" /\ trk.pc = "add"
  /\ a' = a \cup {trk.out}
  /\ trk' = [trk EXCEPT !.pc = trk.back, !.hist = Append(@, <<"add", trk.out>>)]
  /\ UNCHANGED <<connVars, rl, net, srv, callVars, strVars, can, cur, run, clc, dials, up,
                 script, panic>>
  /\ UNCHANGED errVars

\* case rm := <-cl.r: a[rm] = false, false, received from a tracker in "cl.r <- addr"
RunRm ==
  /\ Live /\ run = "select" /\ trk.pc = "rm"
  /\ a' = a \ {trk.out}
  /\ trk' = [trk EXCEPT !.pc = trk.back, !.hist = Append(@, <<"rm", trk.out>>)]
  /\ UNCHANGED <<connVars, rl, net, srv, callVars, strVars, can, cur, run, clc, dials, up,
                 script, panic>>
  /\ UNCHANGED errVars

\* case <-c.closed: a[c.addr] = false, false; c = cl.connect(a)
RunClosed ==
  /\ Live /\ run = "select" /\ closed[cur] > 0
  /\ closed' = [closed EXCEPT ![cur] = @ - 1]
  /\ a' = a \ {addr[cur]}
  /\ run' = "connect"
  /\ UNCHANGED <<err, n, cb, cbnil, addr, torn, rl, net, srv, callVars, strVars, can, cur,
                 clc, dials, up, trkVars, panic>>
  /\ UNCHANGED errVars

\* The trackers of the session's connections, seen from Client.run: one of
\* them is about to publish an address read from the store, to be added
\* (cl.a <- addr) or removed (cl.r <- addr).
TrackerOffer ==
  /\ Live /\ trk.pc = "off" /\ Len(trk.hist) < MaxPubs
  /\ \E kind \in {"add", "rm"}, ad \in Addrs :
       trk' = [trk EXCEPT !.pc = kind, !.out = ad, !.back = "off"]
  /\ UNCHANGED <<connVars, rl, net, srv, callVars, strVars, can, sessVars, script, panic>>
  /\ UNCHANGED errVars

\* ------------------------------------------- Client.call / Client.retry
\* c := <-cl.c: the conn Client.run offers in "case cl.c <- c", or nil once
\* cl.c is closed: return nil, ErrNoAddrs
ClientConn(k) ==
  /\ Live /\ pc[k] = "getconn"
  /\ \/ /\ run = "select"
        /\ cc' = [cc EXCEPT ![k] = cur]
        /\ pc' = [pc EXCEPT ![k] = "send"]
        /\ UNCHANGED res
     \/ /\ clc
        /\ res' = [res EXCEPT ![k] = "ErrNoAddrs"]
        /\ pc' = [pc EXCEPT ![k] = "done"]
        /\ UNCHANGED cc
  /\ UNCHANGED <<connVars, rl, net, srv, tag, chan, rcv, strVars, can, sessVars, trkVars, panic>>
  /\ UNCHANGED errVars

\* r, err = c.call(t); if c.err != nil { continue }; return
RetryCheck(k) ==
  /\ Live /\ pc[k] = "retry"
  /\ pc' = [pc EXCEPT ![k] = IF err[cc[k]] # Nil THEN "getconn" ELSE "done"]
  /\ UNCHANGED <<connVars, rl, net, srv, cc, tag, res, chan, rcv, strVars, can, sessVars,
                 trkVars, panic>>
  /\ UNCHANGED errVars

\* --------------------------------------- the cluster session: SessionSpec
\* New(name, addr0) has started Client.run, which is about to connect; one
\* caller is about to invoke Client.retry and one Client.call; some of the
\* addresses are reachable.
SessionInit ==
  /\ InitConns
  /\ n = Allocated(0)
  /\ rl = [c \in Conns |-> [pc |-> "off", r |-> NoFrame, ch |-> Nil]]
  /\ addr = [c \in Conns |-> ""]
  /\ cc = [k \in Calls |-> 1]
  /\ a = {"addr0"} /\ cur = 0 /\ run = "connect" /\ dials = 0
  /\ up \in SUBSET Addrs
  /\ pc = [k \in Calls |-> IF k \in Retriers \cup {"u1"} THEN "getconn" ELSE "off"]
  /\ trk = NoTracker
  /\ script = [s \in TrkStreams |-> <<>>]
  /\ NoErrCall

SessionNext ==
  \/ Connect \/ RunAdd \/ RunRm \/ RunClosed \/ TrackerOffer
  \/ \E k \in Calls : ClientConn(k) \/ RetryCheck(k)
  \/ \E k \in Calls : SendCheck(k) \/ SendAlloc(k) \/ SendWrite(k) \/ SendUnreg(k) \/ CallRecv(k)
  \/ \E c \in Conns : ReadResponse(c) \/ Deliver(c) \/ CloseSink(c) \/ ReadError(c) \/ ConnClose(c)
  \/ \E c \in Conns : SrvReply(c)

SessionSpec == SessionInit /\ [][SessionNext]_vars

\* ---------------------------------------------------- conn.monitorAddrs
\* "/ctl/node/" + sid + "/addr" and a path matching "/ctl/cal/*"
NodePath(sid) == <<"ctl", "node", sid, "addr">>
CalPath == <<"ctl", "cal", "0">>

\* the store as the remote shows it to the tracker: the address walk yields
\* node A -> addr1, the leader walk yields CalPath -> A, and the leader watch
\* reports nothing or, later, the removal of CalPath
Scripts ==
  {[wa |-> <<>>,
    ka |-> <<[path |-> NodePath("A"), body |-> "addr1"]>>,
    kl |-> <<[path |-> CalPath, body |-> "A"]>>,
    wl |-> w] : w \in {<<>>, <<[path |-> CalPath, body |-> ""]>>}}

\* the Event (Path, Body) the forwarding goroutine of tracker stream s builds
\* from Response r; a Response with an error yields an Event with Err only
TrkEvent(s, r) ==
  IF RErr(r) # Nil THEN [path |-> <<>>, body |-> ""] ELSE script[s][r.val]

\* m[k] of a Go map: the zero value when k is absent
Lookup(m, k) == IF k \in DOMAIN m THEN m[k] ELSE ""

\* addAddr := func(p, a string) { if len(a) > 0 { addrs[p] = a } }
AddAddr(m, ev) == IF ev.body # "" THEN MapPut(m, ev.path, ev.body) ELSE m

\* the statement after the c.events call for stream s returned a Watch
AfterEvents(s) ==
  IF s = "wa" THEN "ka" ELSE IF s = "ka" THEN "init" ELSE IF s = "wl" THEN "kl" ELSE "loop"

\* watchAddr / walkAddr / watch / walk, err := c.events(...) returned:
\* if err != nil { log.Println(err); return }, else go on to the next statement
TrkEvents(s) ==
  /\ Live /\ trk.pc = s /\ pc[s] \in {"open", "done"}
  /\ IF pc[s] = "done"
     THEN /\ trk' = [trk EXCEPT !.pc = "exit"]
          /\ UNCHANGED pc
     ELSE /\ trk' = [trk EXCEPT !.pc = AfterEvents(s)]
          /\ pc' = IF AfterEvents(s) \in TrkStreams
                   THEN [pc EXCEPT ![AfterEvents(s)] = "send"] ELSE pc
  /\ UNCHANGED <<connVars, rl, net, srv, cc, tag, res, chan, rcv, strVars, can, sessVars,
                 script, panic>>
  /\ UNCHANGED errVars

\* the init loop: select over walkAddr.C (break when closed) and watchAddr.C
\* (no closed check: its nil Event is dereferenced)
TrkInit ==
  /\ Live /\ trk.pc = "init"
  /\ \/ \E s \in {"ka", "wa"} :
          /\ Offering(s)
          /\ trk' = [trk EXCEPT !.addrs = AddAddr(@, TrkEvent(s, fwd[s].ev))]
          /\ fwd' = [fwd EXCEPT ![s] = [pc |-> "range", ev |-> NoFrame]]
          /\ UNCHANGED <<pc, panic>>
     \/ /\ evs["ka"].closed
        /\ trk' = [trk EXCEPT !.pc = "wl"]
        /\ pc' = [pc EXCEPT !["wl"] = "send"]
        /\ UNCHANGED <<fwd, panic>>
     \/ /\ evs["wa"].closed
        /\ panic' = "nil pointer dereference"
        /\ UNCHANGED <<trk, fwd, pc>>
  /\ UNCHANGED <<connVars, rl, net, srv, cc, tag, res, chan, rcv, evs, seen, can, sessVars,
                 script>>
  /\ UNCHANGED errVars

\* the tracker's handling of an event of the leader walk or watch: a body
\* names the node whose address is published on cl.a, an empty body
\* publishes the address recorded for the path on cl.r
Publish(t, ev) ==
  IF ev.body # ""
  THEN [t EXCEPT !.cal = MapPut(@, ev.path, Lookup(t.addrs, NodePath(ev.body))),
                 !.pc = "add", !.out = Lookup(t.addrs, NodePath(ev.body)), !.back = "loop"]
  ELSE [t EXCEPT !.cal = MapDel(@, ev.path),
                 !.pc = "rm", !.out = Lookup(t.cal, ev.path), !.back = "loop"]

\* the main loop: break when watchAddr.C, walk.C and watch.C are all nil;
\* else select over those not nil; a closed one is set to nil
TrkLoop ==
  /\ Live /\ trk.pc = "loop"
  /\ IF {"wa", "kl", "wl"} \subseteq trk.off
     THEN /\ trk' = [trk EXCEPT !.pc = "exit"]
          /\ UNCHANGED fwd
     ELSE \E s \in {"wa", "kl", "wl"} \ trk.off :
            \/ /\ evs[s].closed
               /\ trk' = [trk EXCEPT !.off = @ \cup {s}]
               /\ UNCHANGED fwd
            \/ /\ Offering(s)
               /\ trk' = IF s = "wa"
                         THEN [trk EXCEPT !.addrs = AddAddr(@, TrkEvent(s, fwd[s].ev))]
                         ELSE Publish(trk, TrkEvent(s, fwd[s].ev))
               /\ fwd' = [fwd EXCEPT ![s] = [pc |-> "range", ev |-> NoFrame]]
  /\ UNCHANGED <<connVars, rl, net, srv, callVars, evs, seen, can, sessVars, script, panic>>
  /\ UNCHANGED errVars

\* -------------------------------------- the membership tracker: TrackerSpec
\* Client.dial has started monitorAddrs on connection 1, which Client.run
\* serves; the tracker is in its first c.events call.
TrackerInit ==
  /\ InitConns /\ Dialed
  /\ n = Allocated(0)
  /\ pc = [k \in Calls |-> IF k = "wa" THEN "send" ELSE "off"]
  /\ trk = [NoTracker EXCEPT !.pc = "wa"]
  /\ script \in Scripts
  /\ NoErrCall

TrackerNext ==
  \/ \E s \in TrkStreams : TrkEvents(s)
  \/ TrkInit \/ TrkLoop \/ RunAdd \/ RunRm
  \/ \E k \in Calls : SendCheck(k) \/ SendAlloc(k) \/ SendWrite(k) \/ SendUnreg(k)
  \/ \E c \in Conns : ReadResponse(c) \/ Deliver(c) \/ CloseSink(c) \/ ReadError(c) \/ ConnClose(c)
  \/ \E c \in Conns : SrvEvent(c) \/ SrvEnd(c)
  \/ \E s \in Streams : FwdRecv(s) \/ FwdClose(s)

TrackerSpec == TrackerInit /\ [][TrackerNext]_vars

\* ---------------------------------------------------------------- (*R).err
\* the error codes a Response may carry
KnownCodes == {"NOTDIR", "ISDIR", "NOENT", "REV_MISMATCH", "TOO_LATE"}
\* REDIRECT and six further codes that are not in the table
OtherCodes == {"REDIRECT", "code 101", "code 102", "code 103", "code 104",
               "code 105", "code 106"}
Codes == KnownCodes \cup OtherCodes
Details == {"", "permission denied", "no such verb"}

\* an error value that is not an *Error: a typed error, os.EOF, or no error
Typed(name) == [error |-> name]

\* the table of typed errors
errs ==
  [c \in KnownCodes |->
     CASE c = "NOTDIR" -> Typed("os.ENOTDIR")
       [] c = "ISDIR" -> Typed("os.EISDIR")
       [] c = "NOENT" -> Typed("os.ENOENT")
       [] c = "REV_MISMATCH" -> Typed("ErrOldRev")
       [] c = "TOO_LATE" -> Typed("ErrTooLate")]

\* &Error{c, detail}
Error(c, detail) == [Code |-> c, Detail |-> detail]

\* the Responses (*R).err may be called on: a nil *R, or an R whose ErrCode
\* and ErrDetail are each nil or set
Responses ==
  {NoResponse} \cup [ErrCode : Codes \cup {Nil}, ErrDetail : Details \cup {Nil}]

\* (*R).err with the table looked up before the detail string
RerrTableFirst(r) ==
  IF r = NoResponse THEN Typed("os.EOF")
  ELSE IF r.ErrCode # Nil
       THEN IF r.ErrCode \in DOMAIN errs THEN errs[r.ErrCode]
            ELSE IF r.ErrDetail # Nil THEN Error(r.ErrCode, r.ErrDetail)
            ELSE Error(r.ErrCode, "")
       ELSE Typed(Nil)

\* (*R).err
Rerr(r) ==
  IF r = NoResponse THEN Typed("os.EOF")
  ELSE IF r.ErrCode # Nil
       THEN IF r.ErrDetail # Nil THEN Error(r.ErrCode, r.ErrDetail)
            ELSE IF r.ErrCode \in DOMAIN errs THEN errs[r.ErrCode]
            ELSE Error(r.ErrCode, "")
       ELSE Typed(Nil)

\* a caller holds a Response and has not yet asked for its error
ErrInit ==
  /\ InitConns
  /\ Dialed
  /\ n = [c \in Conns |-> 0]
  /\ pc = [k \in Calls |-> "off"]
  /\ trk = NoTracker
  /\ script = [s \in TrkStreams |-> <<>>]
  /\ rin \in Responses
  /\ rout = NotCalled

\* the caller calls r.err()
CallErr ==
  /\ rout = NotCalled
  /\ rout' = Rerr(rin)
  /\ UNCHANGED <<connVars, rl, net, srv, callVars, strVars, can, sessVars, trkVars,
                 panic, rin>>

ErrNext == CallErr
ErrSpec == ErrInit /\ [][ErrNext]_vars

\* ================================================================ claims
\* C1: for all sequences of concurrent unary calls on one connection each
\* call receives exactly one terminal outcome (every call that was started
\* returns, with a result, after at most one Response), and no Response is
\* delivered to a sink other than the one of the call sent with its tag.
C1_EachCallOneOutcome ==
  /\ \A k \in Unary : \A i \in 1 .. Len(rcv[k]) : rcv[k][i].for = k
  /\ \A k \in Unary : Len(rcv[k]) <= 1
  /\ \A k \in Unary : pc[k] = "done" => res[k] # Nil
  /\ (\A k \in Unary : pc[k] = "done") \/ ENABLED UnaryNext

\* two unary calls returned, one with a Response and one with os.EOF
C1_Witness ==
  /\ \A k \in Unary : pc[k] = "done"
  /\ \E k \in Unary : res[k] = "ok" /\ Len(rcv[k]) = 1
  /\ \E k \in Unary : res[k] = "EOF"

\* C2: on teardown (the read loop exits on a read error and runs conn.close)
\* every sink open in the table at that moment, unary or streaming, has its
\* channel closed exactly once, and a goroutine waiting on such a sink (a
\* unary caller in conn.call, a forwarding goroutine in conn.events) is not
\* blocked: its receive can complete.
C2_TeardownClosesOpenSinks ==
  /\ panic # "close of closed channel"
  /\ \A c \in Conns : \A k \in torn[c] :
       rl[c].pc = "exit" =>
         /\ chan[k].closed /\ chan[k].closes = 1
         /\ (Live /\ pc[k] = "recv") => ENABLED CallRecv(k)
         /\ (Live /\ k \in Streams /\ fwd[k].pc = "range") => ENABLED FwdRecv(k)

\* teardown found a unary and a streaming sink open; the unary caller got
\* os.EOF and Watch.C of the stream is closed
C2_Witness ==
  /\ rl[1].pc = "exit" /\ {"u1", "w1"} \subseteq torn[1]
  /\ pc["u1"] = "done" /\ res["u1"] = "EOF"
  /\ evs["w1"].closed

\* C3: a Cancel of a streaming call whose tag is open with the expected sink
\* always closes its event sequence: the program does not come to rest with
\* Watch.C open after such a Cancel; and once the remote has confirmed the
\* CANCEL the tag is absent from the table (or already allocated again).
C3_CancelClosesEvents ==
  \A s \in Watches :
    /\ (Live /\ can[s].acc /\ ~ENABLED Next) => evs[s].closed
    /\ can[s].pc = "close" =>
         \/ tag[s] \notin DOMAIN cb[cc[s]]
         \/ cb[cc[s]][tag[s]] \notin {s, Nil}

\* a Cancel that passed the tag check returned nil and Watch.C is closed
C3_Witness ==
  can["w1"].acc /\ can["w1"].res = "ok" /\ evs["w1"].closed /\ tag["w1"] \notin DOMAIN cb[1]

\* the tag of stream s is not (or no longer) open with the sink of s
NotOpen(s) == ~(tag[s] \in DOMAIN cb[cc[s]] /\ cb[cc[s]][tag[s]] = s)

\* a step in which conn.cancel runs its tag check for s
CancelChecks(s) == can[s].pc = "idle" /\ can'[s] # can[s]

\* C4: Cancel on a streaming call whose tag is no longer open with that
\* call's sink (ended by a Done frame, by an earlier Cancel, by teardown, or
\* reallocated to another call) returns ErrBadTag and has no other effect:
\* the table is unchanged, no CANCEL is started or written, no sink is closed.
C4_BadTagNoSideEffect ==
  [][\A s \in Watches :
       (CancelChecks(s) /\ NotOpen(s)) =>
          /\ can'[s].pc = "idle" /\ can'[s].res = "ErrBadTag"
          /\ cb' = cb /\ srv' = srv /\ net' = net
          /\ chan' = chan /\ evs' = evs
          /\ pc' = pc /\ n' = n /\ err' = err]_vars

\* Cancel returned ErrBadTag while the stream's tag is held by another call
C4_Witness ==
  /\ can["w1"].res = "ErrBadTag"
  /\ tag["w1"] \in DOMAIN cb[1] /\ cb[1][tag["w1"]] = "u1"

\* a step in which conn.send registers call k
Registers(k) == pc[k] = "lock" /\ pc'[k] = "write"

\* C5: a tag is open for at most one logical call: conn.send never returns a
\* tag that is open or reserved-closing in the table, so an entry of the
\* table (sink or placeholder) is never replaced by another call's sink.
C5_SendReturnsUnusedTag ==
  [][/\ \A k \in Calls : Registers(k) =>
          /\ tag'[k] \notin DOMAIN cb[cc[k]]
          /\ cb'[cc[k]][tag'[k]] = k
     /\ \A c \in Conns : \A t \in DOMAIN cb[c] \cap DOMAIN cb'[c] :
          cb'[c][t] \in {cb[c][t], Nil}]_vars

\* the CANCEL call was registered past the placeholder of the stream's tag
C5_Witness ==
  /\ tag["w1"] \in DOMAIN cb[1] /\ cb[1][tag["w1"]] = Nil
  /\ tag["x1"] \in DOMAIN cb[1] /\ cb[1][tag["x1"]] = "x1"
  /\ tag["x1"] # tag["w1"]

\* C6: a streaming call that loses its connection mid-stream (teardown while
\* its tag is open) surfaces a terminal Event whose Err is set before Watch.C
\* is closed.
C6_TeardownSurfacesError ==
  \A s \in Watches : \A c \in Conns :
    (s \in torn[c] /\ evs[s].closed) =>
       /\ seen[s] # <<>>
       /\ seen[s][Len(seen[s])].err # Nil

\* C7: Client.retry on a call that fails solely because the connection was
\* lost eventually returns success if another address of the pool is
\* reachable: it never returns the error of a lost connection and it does not
\* end without returning; and it returns ErrNoAddrs only when the address pool
\* has been exhausted.
C7_RetryOutcome ==
  \A k \in Retriers :
    /\ pc[k] = "done" => res[k] \in {"ok", "remote", "ErrNoAddrs"}
    /\ (pc[k] = "done" /\ res[k] = "ErrNoAddrs") => a = {}
    /\ pc[k] = "done" \/ ENABLED SessionNext

\* the first connection was lost and the retried call succeeded on the second
C7_Witness ==
  /\ pc["rt"] = "done" /\ res["rt"] = "ok" /\ cc["rt"] = 2
  /\ rl[1].pc = "exit"

\* the read loop takes a frame from connection c
FrameRead(c) == Len(net'[c]) < Len(net[c])

\* a request is written to connection c
FrameWritten(c) == \E q \in srv'[c] \ srv[c] : q.sent = 0

\* call k enters conn.send
CallStarts(k) == pc[k] = "send" /\ pc'[k] # "send"

\* C8: once conn.err is set, by the write path or by the read loop, no
\* further frame is written to or read from the connection, and every new
\* call on it fails immediately with that error.
C8_StickyErrorStopsIO ==
  [][\A c \in Conns : err[c] # Nil =>
       /\ ~FrameRead(c)
       /\ ~FrameWritten(c)
       /\ \A k \in Calls : (cc[k] = c /\ CallStarts(k)) =>
            pc'[k] = AfterCall(k) /\ res'[k] = err[c]]_vars

\* a call that started after the sticky error was set returned that error
C8_Witness ==
  err[1] = "werr" /\ pc["u1"] = "done" /\ res["u1"] = "werr" /\ pc["w1"] = "done"

\* the read loop of c has read the final (Done-flagged) frame of stream s and
\* has not closed the sink yet
HoldsFinalFrame(c, s) ==
  /\ rl[c].ch = s
  /\ \/ rl[c].pc = "closech"
     \/ rl[c].pc = "deliver" /\ HasFlag(rl[c].r.flags, Done)

\* C9: under every interleaving of a Done-flagged frame, a concurrent Cancel
\* and teardown, the sink channel of a streaming call is closed at most once
\* and nothing is sent on it after it is closed; a Cancel racing the final
\* frame finds the tag not open (ErrBadTag) and is not in progress on the sink.
C9_SinkClosedAtMostOnce ==
  /\ panic \notin {"close of closed channel", "send on closed channel"}
  /\ \A s \in Streams : chan[s].closes <= 1
  /\ \A c \in Conns : rl[c].pc = "deliver" => ~chan[rl[c].ch].closed
  /\ \A c \in Conns : \A s \in Watches :
       HoldsFinalFrame(c, s) => NotOpen(s) /\ can[s].pc = "idle"

\* Cancel returned ErrBadTag while the read loop holds the final frame
C9_Witness ==
  HoldsFinalFrame(1, "w1") /\ can["w1"].res = "ErrBadTag" /\ ~chan["w1"].closed

\* the publications Client.run has received of the given kind and address
Published(kind, ad) == {i \in 1 .. Len(trk.hist) : trk.hist[i] = <<kind, ad>>}

\* Client.run has received a removal
RemovalPublished == \E i \in 1 .. Len(trk.hist) : trk.hist[i][1] = "rm"

\* C10: with an address walk yielding node A -> addr1 and a leader walk
\* yielding CalPath -> A, addr1 is published on the add channel at most once
\* and is in the pool once the tracker has handled the leader walk's event;
\* and once the later watch event removing CalPath has been handled and its
\* removal received by Client.run, addr1 is not in the pool, whichever of
\* the leader walk and leader watch events the tracker's select took first.
C10_LeaderRemovalSticks ==
  /\ Cardinality(Published("add", "addr1")) <= 1
  /\ (Published("add", "addr1") # {} /\ ~RemovalPublished) => "addr1" \in a
  /\ RemovalPublished => "addr1" \notin a

\* addr1 was added to the pool and removed again by the later watch event
C10_Witness ==
  /\ trk.hist = <<<<"add", "addr1">>, <<"rm", "addr1">>>>
  /\ a = {"addr0"}

\* call k obtains (or fails to obtain) the current connection from cl.c
TakesConn(k) == pc[k] = "getconn" /\ pc'[k] # "getconn"

\* C11: once the address pool has emptied during connect (cl.c is closed and
\* Client.run has returned) the session stays not-connected: the pool stays
\* empty and cl.c closed whatever address is offered for adding later, and
\* every request for the current connection yields ErrNoAddrs.
C11_NotConnectedIsPermanent ==
  [][/\ clc' => (a' = {} /\ run' = "exit")
     /\ clc => clc'
     /\ clc => \A k \in Calls :
                 TakesConn(k) => (pc'[k] = "done" /\ res'[k] = "ErrNoAddrs")]_vars

\* not connected: both callers got ErrNoAddrs while a tracker is offering an
\* address on cl.a that nobody receives
C11_Witness ==
  /\ clc /\ a = {} /\ trk.pc = "add"
  /\ pc["rt"] = "done" /\ res["rt"] = "ErrNoAddrs"
  /\ pc["u1"] = "done" /\ res["u1"] = "ErrNoAddrs"

\* C12: within one tag's stream the events received from Watch.C are, in
\* order and without duplicate or gap, the Valid frames the read loop took
\* from the socket for that tag while it was open (the remote numbers them
\* 1, 2, ...; an error frame ends the stream), even with frames of other
\* tags in between; at most the last frame is still with the forwarding
\* goroutine.
C12_EventsInFrameOrder ==
  \A s \in Watches :
    /\ \A i \in 1 .. Len(rcv[s]) :
         /\ rcv[s][i].for = s
         /\ rcv[s][i].ec = 0 => rcv[s][i].val = i
         /\ rcv[s][i].ec # 0 => i = Len(rcv[s])
    /\ Len(seen[s]) = Len(rcv[s]) - (IF fwd[s].pc = "send" THEN 1 ELSE 0)
    /\ \A i \in 1 .. Len(seen[s]) :
         /\ seen[s][i].val = rcv[s][i].val
         /\ (seen[s][i].err = Nil) <=> (rcv[s][i].ec = 0)
    /\ fwd[s].pc = "send" => fwd[s].ev = rcv[s][Len(rcv[s])]

\* three events were received in order while a unary call on another tag
\* got its Response
C12_Witness ==
  /\ Len(seen["w1"]) = 3 /\ \A i \in 1 .. 3 : seen["w1"][i].val = i
  /\ pc["u1"] = "done" /\ res["u1"] = "ok" /\ tag["u1"] # tag["w1"]

\* C13: every connection-level I/O error, set by the write path (writeT) or
\* by the read path (readR), triggers teardown and reconnection: once
\* conn.err is set the read loop has stopped reading and conn.close is due or
\* done; after conn.close every call still waiting for its Response on that
\* connection finds its sink closed (os.EOF), and a session serving that
\* connection has the closure signal waiting in c.closed.
C13_IOErrorTriggersTeardown ==
  \A c \in Conns :
    err[c] # Nil =>
      /\ rl[c].pc \in {"close", "exit"}
      /\ rl[c].pc = "exit" =>
           \A k \in Calls : (cc[k] = c /\ pc[k] = "recv") => chan[k].closed
      /\ (rl[c].pc = "exit" /\ cur = c /\ run = "select") => closed[c] > 0

\* a read error tore connection 1 down and the session dialed a replacement
C13_Witness ==
  err[1] = "rerr" /\ rl[1].pc = "exit" /\ cur = 2 /\ run = "select"

\* the tag of stream s is reserved-closing: the table holds the nil placeholder
Reserved(s) == tag[s] \in DOMAIN cb[cc[s]] /\ cb[cc[s]][tag[s]] = Nil

\* conn.cancel for s returns the error of its CANCEL call
CancelFails(s) == can[s].pc = "call" /\ can'[s].pc = "idle"

\* C14: if the CANCEL call issued by conn.cancel fails, the placeholder of
\* the target tag stays in the table: it is there when conn.cancel returns
\* the error and, with no Cancel in progress, it is never removed or replaced
\* until conn.close discards the whole table; and conn.send never registers
\* a call under that tag.
C14_FailedCancelKeepsPlaceholder ==
  [][\A s \in Watches :
       /\ (CancelFails(s) /\ ~cbnil[cc[s]]) => (Reserved(s) /\ Reserved(s)')
       /\ (Reserved(s) /\ can[s].pc = "idle") =>
            /\ Reserved(s)' \/ cbnil'[cc[s]]
            /\ \A k \in Calls : (Registers(k) /\ cc[k] = cc[s]) => tag'[k] # tag[s]]_vars

\* the remote refused the CANCEL: the placeholder is still in the table and a
\* call that registered afterwards holds another tag
C14_Witness ==
  /\ can["w1"].pc = "idle" /\ can["w1"].res = "remote" /\ Reserved("w1")
  /\ pc["u1"] = "recv" /\ tag["u1"] \in DOMAIN cb[1] /\ cb[1][tag["u1"]] = "u1"
  /\ tag["u1"] > tag["x1"]

\* the frame at the head of c's socket has a tag that is reserved-closing
\* (nil placeholder) or absent from the table
UnexpectedHead(c) ==
  /\ net[c] # <<>>
  /\ \/ Head(net[c]).tag \notin DOMAIN cb[c]
     \/ cb[c][Head(net[c]).tag] = Nil

\* C15: a frame the read loop reads while its tag is reserved-closing or
\* absent from the table is delivered to no sink and closes none, leaves the
\* table unchanged, and does not end the read loop: it goes on to read the
\* frames that follow.
C15_UnexpectedFrameDropped ==
  [][\A c \in Conns :
       (FrameRead(c) /\ UnexpectedHead(c)) =>
          /\ cb' = cb
          /\ rcv' = rcv /\ chan' = chan /\ fwd' = fwd /\ pc' = pc
          /\ rl'[c].pc = "read" /\ err' = err /\ closed' = closed
          /\ net'[c] = Tail(net[c])]_vars

\* the remote refused the CANCEL and went on with the stream: its two event
\* frames were read while the tag was reserved and reached nobody, and the
\* Response of the CANCEL call was still delivered
C15_Witness ==
  /\ Reserved("w1") /\ can["w1"].res = "remote" /\ rcv["w1"] = <<>>
  /\ \E q \in srv[1] : q.for = "w1" /\ q.sent = 2
  /\ net[1] = <<>> /\ rl[1].pc = "read"
  /\ Len(rcv["x1"]) = 1

\* C16: (*R).err returns os.EOF for a nil Response, nil for a Response without
\* an error code, the typed error of the table for a known code, and a generic
\* Error carrying the code and the detail for an unknown code, and this whether
\* or not a detail string is present.
C16_ErrTranslatesCodes ==
  rout # NotCalled =>
    IF rin = NoResponse THEN rout = Typed("os.EOF")
    ELSE /\ rin.ErrCode = Nil => rout = Typed(Nil)
         /\ rin.ErrCode \in KnownCodes => rout = errs[rin.ErrCode]
         /\ rin.ErrCode \in OtherCodes =>
              rout = Error(rin.ErrCode, IF rin.ErrDetail = Nil THEN "" ELSE rin.ErrDetail)

\* C16 (amended): as above, except that a known code is translated to its
\* typed error only when the Response has no detail string; with a detail
\* string every code, known or not, gives a generic Error with code and detail.
C16_ErrTranslatesCodesWithoutDetail ==
  rout # NotCalled =>
    IF rin = NoResponse THEN rout = Typed("os.EOF")
    ELSE /\ rin.ErrCode = Nil => rout = Typed(Nil)
         /\ (rin.ErrCode \in KnownCodes /\ rin.ErrDetail = Nil) => rout = errs[rin.ErrCode]
         /\ (rin.ErrCode \in KnownCodes /\ rin.ErrDetail # Nil) =>
              rout = Error(rin.ErrCode, rin.ErrDetail)
         /\ rin.ErrCode \in OtherCodes =>
              rout = Error(rin.ErrCode, IF rin.ErrDetail = Nil THEN "" ELSE rin.ErrDetail)

\* (*R).err was called on a Response with a known code and a detail string
C16_Witness ==
  /\ rout # NotCalled
  /\ rin # NoResponse
  /\ rin.ErrCode = "NOENT"
  /\ rin.ErrDetail = "permission denied"

\* the i-th tag of the search that starts at x: x + i in int32 arithmetic
RECURSIVE Plus32(_, _)
Plus32(x, i) == IF i = 0 THEN x ELSE Plus32(Inc32(x), i - 1)

\* the smallest tag from 0 upwards that has no entry in table m
LowestFree(m) ==
  CHOOSE t \in 0 .. Cardinality(DOMAIN m) :
    t \notin DOMAIN m /\ \A u \in 0 .. t - 1 : u \in DOMAIN m

\* C17: conn.send allocates the lowest available tag: the tag it registers is
\* the smallest tag that is neither open nor reserved-closing in the table,
\* also when that tag lies below the counter c.n and was released earlier
\* (stated for a counter that is not negative, i.e. has not wrapped around).
C17_SendTakesLowestFreeTag ==
  [][\A k \in Calls : (Registers(k) /\ n[cc[k]] >= 0 /\ n[cc[k]] < MaxInt32) =>
        tag'[k] = LowestFree(cb[cc[k]])]_vars

\* C17 (amended): conn.send registers the first tag at or after the counter
\* c.n, in int32 order with wrap-around, that has no entry in the table, and
\* leaves the counter on it; a free tag below the counter is passed over.
C17_SendTakesNextFreeTag ==
  [][\A k \in Calls : Registers(k) =>
        LET c == cc[k]
        IN \E d \in 0 .. Cardinality(DOMAIN cb[c]) :
             /\ tag'[k] = Plus32(n[c], d)
             /\ n'[c] = tag'[k]
             /\ tag'[k] \notin DOMAIN cb[c]
             /\ \A j \in 0 .. d - 1 : Plus32(n[c], j) \in DOMAIN cb[c]]_vars

\* the CANCEL call is registered under tag 2 although tag 0, released by the
\* finished unary call, is free
C17_Witness ==
  /\ pc["x1"] = "write" /\ tag["x1"] = 2
  /\ pc["u1"] = "done" /\ tag["u1"] = 0
  /\ ~cbnil[1] /\ 0 \notin DOMAIN cb[1]

\* a step of the connection's goroutines, of the remote or of a caller that
\* is not a receive from Watch.C
StepBesidesConsumer ==
  \/ \E k \in Calls : SendCheck(k) \/ SendAlloc(k) \/ SendWrite(k) \/ SendUnreg(k) \/ CallRecv(k)
  \/ \E c \in Conns : ReadResponse(c) \/ Deliver(c) \/ CloseSink(c) \/ ReadError(c) \/ ConnClose(c)
  \/ \E c \in Conns : SrvReply(c) \/ SrvEvent(c) \/ SrvEnd(c)
  \/ \E s \in Streams : FwdRecv(s) \/ FwdClose(s)
  \/ \E s \in Watches : CancelCheck(s) \/ CancelRelease(s) \/ CancelClose(s)

\* C18: progress on a connection does not depend on the consumer of a stream:
\* when the program can take no step other than a receive from Watch.C, the
\* read loop does not sit in "ch <- r", every unary call has returned and so
\* has every Cancel.
C18_ProgressWithoutConsumer ==
  (Live /\ ~ENABLED StepBesidesConsumer) =>
     /\ \A c \in Conns : rl[c].pc # "deliver"
     /\ \A k \in Unary : pc[k] \in {"off", "done"}
     /\ \A s \in Watches : can[s].pc = "idle"

\* the read loop holds the stream's second event for the forwarding goroutine,
\* which still offers the first one on Watch.C; the unary call waits
C18_Witness ==
  /\ rl[1].pc = "deliver" /\ rl[1].ch = "w1"
  /\ fwd["w1"].pc = "send" /\ seen["w1"] = <<>>
  /\ pc["u1"] = "recv"

\* C19: no call registers a sink after teardown has cleared the table: a
\* conn.send that passed the check of c.err and is about to execute
\* "c.cb[tag] = ch" never faces the table conn.close has set to nil, no
\* assignment into the nil table happens, and a sink that was registered is
\* closed once conn.close has run.
C19_NoRegistrationAfterTeardown ==
  /\ \A k \in Calls : pc[k] = "lock" => ~cbnil[cc[k]]
  /\ panic # NilMapPanic
  /\ \A k \in Calls :
       (pc[k] \in {"write", "recv"} /\ rl[cc[k]].pc = "exit") => chan[k].closed

\* after teardown one conn.send returned the sticky error and the sink of
\* another, registered before, was closed by conn.close
C19_Witness ==
  /\ rl[1].pc = "exit"
  /\ pc["u1"] = "done" /\ res["u1"] = "rerr" /\ Len(rcv["u1"]) = 0
  /\ "w1" \in torn[1] /\ chan["w1"].closed

\* a step of Client.run's "case <-c.closed" for the active connection
ClosureHandled == run = "select" /\ run' = "connect"

\* a step of Client.run's "case rm := <-cl.r" removing address ad
RemovalHandled(ad) == trk.pc = "rm" /\ trk.out = ad /\ trk' # trk

\* C20: the session's reconnect logic removes only addresses whose dial
\* failed: an address leaves the pool only in Client.connect after a failed
\* dial (or on a tracker's removal), and when the active connection signals
\* closure its address stays in the pool for the following connect.
C20_ClosureKeepsAddress ==
  [][/\ \A ad \in a \ a' : RemovalHandled(ad) \/ (run = "connect" /\ ad \notin up)
     /\ ClosureHandled => (addr[cur] \in a => addr[cur] \in a')]_vars

\* the session's only address is reachable and was dialed once; after that
\* connection dropped the session is not-connected
C20_Witness ==
  /\ clc /\ run = "exit" /\ a = {}
  /\ dials = 1 /\ addr[1] = "addr0" /\ "addr0" \in up
  /\ Len(trk.hist) = 0

====
